---------------------------- MODULE Spec2Model ----------------------------
(***************************************************************************)
(* Model of src/server.js: the POST /eleven/tts relay.                     *)
(*                                                                         *)
(* A JavaScript string is a sequence of UTF-16 code units (naturals), a    *)
(* byte buffer a sequence of naturals below 256.  undefined / null is the  *)
(* value NULL.  The handler is an async function: each action below is one *)
(* synchronous segment of it, from one await to the next.                  *)
(***************************************************************************)
EXTENDS Integers, Sequences, FiniteSets, TLC

\* ------------------------------------------------------------------ bounds

\* Number of request slots of the model.
NumReq == 2
\* Largest number of chunks an upstream body is split into.
MaxChunks == 2
\* The high-water mark of the caller-facing stream, in bytes (scaled down).
HighWaterMark == 2

\* -------------------------------------------------------- program constants

\* errText.slice(0, 400)
ERR_BODY_MAX == 400
\* sample.slice(0, 250)
SAMPLE_MAX == 250

\* ---------------------------------------------------------- JavaScript values

\* undefined / null: no string has a negative code unit.
NULL == <<-1>>
\* A property that a JSON object does not have.
ABSENT == <<-2>>
\* U+FFFD, the replacement character of the UTF-8 decoder.
REPLACEMENT == 65533

\* "audio/"
S_audio == <<97, 117, 100, 105, 111, 47>>
\* "audio/mpeg"
S_audio_mpeg == <<97, 117, 100, 105, 111, 47, 109, 112, 101, 103>>
\* "AUDIO/Mpeg"
S_AUDIO_Mpeg == <<65, 85, 68, 73, 79, 47, 77, 112, 101, 103>>
\* "text/html"
S_text_html == <<116, 101, 120, 116, 47, 104, 116, 109, 108>>
\* "s3"
S_s3 == <<115, 51>>
\* " s3\n"
S_sp_s3_nl == <<32, 115, 51, 10>>
\* "S3"
S_S3 == <<83, 51>>
\* "k1"
S_k1 == <<107, 49>>
\* " hi "
S_sp_hi_sp == <<32, 104, 105, 32>>
\* "\t "
S_blank == <<9, 32>>
\* "v1"
S_v1 == <<118, 49>>
\* "/x"
S_loc == <<47, 120>>

Min(a, b) == IF a <= b THEN a ELSE b

\* White space of String.prototype.trim among the code units used here.
IsWhite(c) == c \in {9, 10, 11, 12, 13, 32, 160}

\* s.trim()
Trim(s) ==
    LET keep == {i \in 1..Len(s) : ~IsWhite(s[i])}
    IN  IF keep = {} THEN <<>>
        ELSE LET lo == CHOOSE i \in keep : \A j \in keep : i <= j
                 hi == CHOOSE i \in keep : \A j \in keep : j <= i
             IN  SubSeq(s, lo, hi)

\* String(x || ""), for x undefined or a string
OrEmpty(x) == IF x = NULL \/ x = <<>> THEN <<>> ELSE x

\* s.toLowerCase(), on the ASCII range
ToLowerCase(s) == [i \in 1..Len(s) |-> IF s[i] \in 65..90 THEN s[i] + 32 ELSE s[i]]

\* s.includes(sub)
Includes(s, sub) ==
    \E i \in 0..(Len(s) - Len(sub)) : SubSeq(s, i + 1, i + Len(sub)) = sub

\* s.slice(0, n)
Slice(s, n) == SubSeq(s, 1, Min(n, Len(s)))

\* The bytes of a body: its chunks in order.
RECURSIVE Flatten(_)
Flatten(chunks) ==
    IF chunks = <<>> THEN <<>> ELSE Head(chunks) \o Flatten(Tail(chunks))

\* Buffer.from(value): a copy of the bytes of a Uint8Array.
BufferFrom(value) == [i \in 1..Len(value) |-> value[i] % 256]

\* The UTF-8 decoding done by r.text(), for bytes below 0xE0: an ASCII byte
\* is its code unit, a lead byte 0xC2..0xDF with a continuation byte is one
\* code unit, any other byte decodes to U+FFFD.  A continuation byte right
\* after a lead byte is taken by it; every other byte starts a character.
Utf8Taken(b, i) == i > 1 /\ b[i] \in 128..191 /\ b[i - 1] \in 194..223

Utf8Unit(b, i) ==
    IF b[i] < 128 THEN b[i]
    ELSE IF b[i] \in 194..223 /\ i < Len(b) /\ b[i + 1] \in 128..191
         THEN (b[i] - 192) * 64 + (b[i + 1] - 128)
    ELSE REPLACEMENT

\* The characters that start in b[lo..hi], by halving.
RECURSIVE Utf8Range(_, _, _)
Utf8Range(b, lo, hi) ==
    IF lo > hi THEN <<>>
    ELSE IF lo = hi
         THEN (IF Utf8Taken(b, lo) THEN <<>> ELSE <<Utf8Unit(b, lo)>>)
    ELSE LET mid == (lo + hi) \div 2
         IN  Utf8Range(b, lo, mid) \o Utf8Range(b, mid + 1, hi)

Utf8Decode(b) == Utf8Range(b, 1, Len(b))

IsPrefix(s, t) == Len(s) <= Len(t) /\ SubSeq(t, 1, Len(s)) = s


\* ------------------------------------------------------------------ inputs

Reqs == 1..NumReq

\* process.env.ELEVEN_PROXY_SECRET and process.env.ELEVEN_API_KEY
EnvSecrets == {NULL, S_sp_s3_nl}
EnvKeys == {NULL, S_k1}

\* req.headers["x-proxy-secret"], req.body.text, req.body.voiceId
Headers == {NULL, S_s3, S_sp_s3_nl, S_S3}
Texts == {NULL, S_blank, S_sp_hi_sp}
VoiceIds == {NULL, S_blank, S_v1}

\* What the upstream may answer.
UpStatuses == {200, 204, 299, 300, 302, 399, 400, 500}
ContentTypes == {NULL, S_audio_mpeg, S_AUDIO_Mpeg, S_text_html}
Locations == {NULL, S_loc}
Chunks == {<<104>>, <<195, 169>>}

\* fetch gives a response with one of these statuses a null body.
NullBodyStatus == {101, 103, 204, 205, 304}

LongBody(n) == [i \in 1..n |-> 97 + (i % 7)]

\* Bodies around the two diagnostic caps, and one with an invalid byte.
TextBodies ==
    {<<LongBody(n)>> : n \in {SAMPLE_MAX, SAMPLE_MAX + 1, ERR_BODY_MAX, ERR_BODY_MAX + 1}}
        \cup {<<<<128, 104>>>>}

ChunkSeqs == UNION {[1..n -> Chunks] : n \in 0..MaxChunks}

Payloads == ChunkSeqs \cup TextBodies

\* The Response fetch resolves with, and what has happened to its body:
\* bodyUsed (a read of the body was started), done (the body was read to its
\* end), errored (a read of the body was rejected).
Responses ==
    {[status |-> s, contentType |-> c, location |-> l,
      bodyNull |-> (s \in NullBodyStatus),
      payload |-> IF s \in NullBodyStatus THEN <<>> ELSE p,
      bodyUsed |-> FALSE, done |-> FALSE, errored |-> FALSE] :
        s \in UpStatuses, c \in ContentTypes, l \in Locations, p \in Payloads}

NoResponse ==
    [status |-> 0, contentType |-> NULL, location |-> NULL, bodyNull |-> TRUE,
     payload |-> <<>>, bodyUsed |-> FALSE, done |-> FALSE, errored |-> FALSE]

\* ------------------------------------------------------------------- state

VARIABLES
    PROXY_SECRET,     \* the configured shared secret, "" when unset
    ELEVEN_API_KEY,   \* the configured upstream credential, "" when unset
    pc,               \* per request: the await the handler is suspended at
    req,              \* per request: the header and body fields it came with
    calls,            \* per request: the number of fetch calls issued
    r,                \* per request: the upstream Response
    nread,            \* per request: chunks the reader has handed over
    res,              \* per request: the caller-facing response
    caught            \* per request: the catch block has run

cfg == <<PROXY_SECRET, ELEVEN_API_KEY>>
vars == <<PROXY_SECRET, ELEVEN_API_KEY, pc, req, calls, r, nread, res, caught>>

\* A fresh http.ServerResponse: statusCode 200, no header set, nothing sent.
\* sentStatus / sentType are the status line and Content-Type that went out
\* with the header block; json the JSON bodies sent; body the raw bytes
\* the handler wrote with res.write / res.end.  writableLength counts the
\* raw bytes written and not yet flushed to the caller's socket; closed is
\* set when the caller has disconnected, after which what is written is
\* discarded instead of queued.
NewRes ==
    [statusCode |-> 200, contentType |-> "", cacheControl |-> "",
     headersSent |-> FALSE, sentStatus |-> 0, sentType |-> "",
     json |-> <<>>, body |-> <<>>, ended |-> FALSE,
     writableLength |-> 0, closed |-> FALSE]

NoReq == [secret |-> NULL, text |-> NULL, voiceId |-> NULL]

\* ----------------------------------------------------- the response object

\* res.status(code)
ResStatus(rs, code) == [rs EXCEPT !.statusCode = code]

\* res.send of a string reflects the charset in an existing Content-Type.
WithCharset(t) ==
    CASE t = "audio/mpeg" -> "audio/mpeg; charset=utf-8"
      [] t = "application/json" -> "application/json; charset=utf-8"
      [] OTHER -> t

\* res.json throws ERR_HTTP_HEADERS_SENT once the header block is out.
JsonThrows(rs) == rs.headersSent

\* res.json(obj) on a response whose headers are not sent yet.
ResJson(rs, obj) ==
    LET t == WithCharset(IF rs.contentType = "" THEN "application/json"
                         ELSE rs.contentType)
    IN  [rs EXCEPT !.contentType = t, !.headersSent = TRUE,
                   !.sentStatus = rs.statusCode, !.sentType = t,
                   !.json = Append(@, obj), !.ended = TRUE]

\* Mutant of ResWrite: the body is replaced by the chunk, not extended.
ResWriteReplace(rs, buf) ==
    [rs EXCEPT !.headersSent = TRUE,
               !.sentStatus = IF rs.headersSent THEN @ ELSE rs.statusCode,
               !.sentType = IF rs.headersSent THEN @ ELSE rs.contentType,
               !.body = buf]

\* res.write(buf): the first write sends the header block.
ResWrite(rs, buf) ==
    [rs EXCEPT !.headersSent = TRUE,
               !.sentStatus = IF rs.headersSent THEN @ ELSE rs.statusCode,
               !.sentType = IF rs.headersSent THEN @ ELSE rs.contentType,
               !.body = @ \o buf,
               !.writableLength = IF rs.closed THEN @ ELSE @ + Len(buf)]

\* res.writableNeedDrain: the last res.write returned false, the buffer has
\* reached the high-water mark.
NeedDrain(rs) == rs.writableLength >= HighWaterMark

\* res.end(buf)
ResEnd(rs, buf) == [ResWrite(rs, buf) EXCEPT !.ended = TRUE]

\* { ok: false, error: kind, ... }
ErrObj(kind) ==
    [ok |-> FALSE, error |-> kind, status |-> 0, location |-> ABSENT,
     contentType |-> ABSENT, body |-> ABSENT, message |-> ""]

\* ------------------------------------------------------------- the handler

\* Mutant of RequireSecret: a request without the header is admitted.
RequireSecretMissingOk(hdr) ==
    IF PROXY_SECRET = <<>> THEN TRUE
    ELSE hdr = NULL \/ Trim(OrEmpty(hdr)) = PROXY_SECRET

\* Mutant of RequireSecret: the header is compared even when no secret is set.
RequireSecretAlways(hdr) == hdr # NULL /\ Trim(OrEmpty(hdr)) = PROXY_SECRET

\* requireSecret: TRUE when the request is admitted.
RequireSecret(hdr) ==
    IF PROXY_SECRET = <<>> THEN TRUE
    ELSE Trim(OrEmpty(hdr)) = PROXY_SECRET

\* Mutant of PreCheck: voiceId is validated before text.
PreCheckVoiceFirst(hdr, text, voiceId) ==
    IF ~(PROXY_SECRET = <<>> \/ Trim(OrEmpty(hdr)) = PROXY_SECRET)
    THEN [status |-> 401, error |-> "bad_secret"]
    ELSE IF ELEVEN_API_KEY = <<>> THEN [status |-> 500, error |-> "no_eleven_key"]
    ELSE IF Trim(OrEmpty(voiceId)) = <<>> THEN [status |-> 400, error |-> "no_voiceId"]
    ELSE IF Trim(OrEmpty(text)) = <<>> THEN [status |-> 400, error |-> "empty_text"]
    ELSE [status |-> 0, error |-> ""]

\* Mutant of PreCheck: the credential is checked after the validation.
PreCheckKeyLast(hdr, text, voiceId) ==
    IF ~(PROXY_SECRET = <<>> \/ Trim(OrEmpty(hdr)) = PROXY_SECRET)
    THEN [status |-> 401, error |-> "bad_secret"]
    ELSE IF Trim(OrEmpty(text)) = <<>> THEN [status |-> 400, error |-> "empty_text"]
    ELSE IF Trim(OrEmpty(voiceId)) = <<>> THEN [status |-> 400, error |-> "no_voiceId"]
    ELSE IF ELEVEN_API_KEY = <<>> THEN [status |-> 500, error |-> "no_eleven_key"]
    ELSE [status |-> 0, error |-> ""]

\* Mutant of PreCheck: the credential is checked before the secret.
PreCheckKeyFirst(hdr, text, voiceId) ==
    IF ELEVEN_API_KEY = <<>> THEN [status |-> 500, error |-> "no_eleven_key"]
    ELSE IF ~(PROXY_SECRET = <<>> \/ Trim(OrEmpty(hdr)) = PROXY_SECRET)
    THEN [status |-> 401, error |-> "bad_secret"]
    ELSE IF Trim(OrEmpty(text)) = <<>> THEN [status |-> 400, error |-> "empty_text"]
    ELSE IF Trim(OrEmpty(voiceId)) = <<>> THEN [status |-> 400, error |-> "no_voiceId"]
    ELSE [status |-> 0, error |-> ""]

\* The checks made before the upstream call, in the order of the code: the
\* status and error of the rejection, or status 0 when the request passes.
PreCheck(hdr, text, voiceId) ==
    IF ~RequireSecret(hdr) THEN [status |-> 401, error |-> "bad_secret"]
    ELSE IF ELEVEN_API_KEY = <<>> THEN [status |-> 500, error |-> "no_eleven_key"]
    ELSE IF Trim(OrEmpty(text)) = <<>> THEN [status |-> 400, error |-> "empty_text"]
    ELSE IF Trim(OrEmpty(voiceId)) = <<>> THEN [status |-> 400, error |-> "no_voiceId"]
    ELSE [status |-> 0, error |-> ""]

\* r.ok
Ok(rsp) == rsp.status >= 200 /\ rsp.status <= 299

\* const ct = String(r.headers.get("content-type") || "").toLowerCase()
Ct(rsp) == ToLowerCase(OrEmpty(rsp.contentType))

\* Mutant of Gate: the content type is not validated.
GateNoContentType(rsp) ==
    IF rsp.status >= 300 /\ rsp.status < 400 THEN "redirect"
    ELSE IF ~Ok(rsp) THEN "failed"
    ELSE "stream"

\* Mutant of Gate: the redirect range starts after 300.
GateRedirectOffByOne(rsp) ==
    IF rsp.status > 300 /\ rsp.status < 400 THEN "redirect"
    ELSE IF ~Ok(rsp) THEN "failed"
    ELSE IF ~Includes(Ct(rsp), S_audio) THEN "bad_content_type"
    ELSE "stream"

\* Mutant of Gate: the content type is validated before the status.
GateContentTypeFirst(rsp) ==
    IF rsp.status >= 300 /\ rsp.status < 400 THEN "redirect"
    ELSE IF ~Includes(Ct(rsp), S_audio) THEN "bad_content_type"
    ELSE IF ~Ok(rsp) THEN "failed"
    ELSE "stream"

\* The branch the handler takes on the upstream response.
Gate(rsp) ==
    IF rsp.status >= 300 /\ rsp.status < 400 THEN "redirect"
    ELSE IF ~Ok(rsp) THEN "failed"
    ELSE IF ~Includes(Ct(rsp), S_audio) THEN "bad_content_type"
    ELSE "stream"

\* Mutant of CatchBlock: no inner try, so the throw of res.json on sent
\* headers rejects the handler.
CatchBlockNoTry(q, rs, msg) ==
    LET r5 == ResStatus(rs, 500)
    IN  /\ res' = [res EXCEPT ![q] =
                     IF JsonThrows(r5) THEN r5
                     ELSE ResJson(r5, [ErrObj("proxy_error") EXCEPT !.message = msg])]
        /\ caught' = [caught EXCEPT ![q] = TRUE]
        /\ pc' = [pc EXCEPT ![q] = IF JsonThrows(r5) THEN "rejected" ELSE "done"]

\* The catch block, entered with response rs: res.status(500).json(...) in a
\* try of its own, whose throw (headers already sent) is swallowed.
CatchBlock(q, rs, msg) ==
    LET r5 == ResStatus(rs, 500)
    IN  /\ res' = [res EXCEPT ![q] =
                     IF JsonThrows(r5) THEN r5
                     ELSE ResJson(r5, [ErrObj("proxy_error") EXCEPT !.message = msg])]
        /\ caught' = [caught EXCEPT ![q] = TRUE]
        /\ pc' = [pc EXCEPT ![q] = "done"]

\* return res.status(code).json(obj) inside the try block.
Respond(q, code, obj) ==
    LET rs == ResStatus(res[q], code)
    IN  IF JsonThrows(rs) THEN CatchBlock(q, rs, "ERR_HTTP_HEADERS_SENT")
        ELSE /\ res' = [res EXCEPT ![q] = ResJson(rs, obj)]
             /\ pc' = [pc EXCEPT ![q] = "done"]
             /\ UNCHANGED caught

\* The handler up to its first await: the guard, the validation, the fetch call.
Start(q, hdr, text, voiceId) ==
    /\ pc[q] = "idle"
    /\ req' = [req EXCEPT ![q] = [secret |-> hdr, text |-> text, voiceId |-> voiceId]]
    /\ LET c == PreCheck(hdr, text, voiceId)
       IN  IF c.status # 0
           THEN Respond(q, c.status, ErrObj(c.error)) /\ UNCHANGED calls
           ELSE /\ calls' = [calls EXCEPT ![q] = @ + 1]
                /\ pc' = [pc EXCEPT ![q] = "fetch"]
                /\ UNCHANGED <<res, caught>>
    /\ UNCHANGED <<cfg, r, nread>>

\* Mutant of FetchReject: the await is outside the try, the handler rejects.
FetchRejectUncaught(q) ==
    /\ pc[q] = "fetch"
    /\ pc' = [pc EXCEPT ![q] = "rejected"]
    /\ UNCHANGED <<cfg, req, calls, r, nread, res, caught>>

\* fetch rejects (a network error): the catch block runs.
FetchReject(q) ==
    /\ pc[q] = "fetch"
    /\ CatchBlock(q, res[q], "fetch failed")
    /\ UNCHANGED <<cfg, req, calls, r, nread>>

\* Mutant of RedirectMode: the option is left out, fetch follows redirects.
RedirectModeFollow == "follow"

\* redirect: "manual"
RedirectMode == "manual"

\* fetch itself requests the Location of this answer instead of resolving.
FetchFollows(rsp) ==
    /\ RedirectMode = "follow"
    /\ rsp.status \in {301, 302, 303, 307, 308}
    /\ rsp.location # NULL

\* The upstream answers rsp and fetch follows it: one more upstream call
\* (fetch gives up after 20 redirects), the handler still awaits.
FetchRedirected(q, rsp) ==
    /\ calls[q] <= 20
    /\ calls' = [calls EXCEPT ![q] = @ + 1]
    /\ UNCHANGED <<r, pc, res, caught>>

\* The upstream answers rsp: fetch follows it or resolves with it, and then
\* the gating, then the first read of the body.
FetchResolve(q, rsp) ==
    /\ pc[q] = "fetch"
    /\ IF FetchFollows(rsp) THEN FetchRedirected(q, rsp) ELSE
       LET g == Gate(rsp)
       IN  /\ UNCHANGED calls
           /\ r' = [r EXCEPT ![q] = [rsp EXCEPT !.bodyUsed = (g # "redirect")]]
           /\ IF g = "redirect"
              THEN Respond(q, 502, [ErrObj("eleven_redirect") EXCEPT
                                        !.status = rsp.status,
                                        !.location = rsp.location])
              ELSE IF g = "stream"
              THEN /\ res' = [res EXCEPT ![q] =
                                [ResStatus(@, 200) EXCEPT
                                    !.contentType = "audio/mpeg",
                                    !.cacheControl = "no-store"]]
                   /\ pc' = [pc EXCEPT ![q] =
                               IF rsp.bodyNull THEN "arrayBuffer" ELSE "read"]
                   /\ UNCHANGED caught
              ELSE /\ pc' = [pc EXCEPT ![q] =
                               IF g = "failed" THEN "errText" ELSE "sample"]
                   /\ UNCHANGED <<res, caught>>
    /\ UNCHANGED <<cfg, req, nread>>

\* await r.text().catch(() => ""): the body as text, "" when the read failed.
BodyText(rsp, readOk) == IF readOk THEN Utf8Decode(Flatten(rsp.payload)) ELSE <<>>

\* Mutant of ErrTextSettle: the body is passed on without the cap.
ErrTextSettleNoSlice(q, readOk) ==
    /\ pc[q] = "errText"
    /\ r' = [r EXCEPT ![q].done = readOk, ![q].errored = ~readOk]
    /\ Respond(q, 502, [ErrObj("eleven_failed") EXCEPT
                            !.status = r[q].status,
                            !.body = BodyText(r[q], readOk)])
    /\ UNCHANGED <<cfg, req, calls, nread>>

\* The non-2xx branch after r.text() settled.
ErrTextSettle(q, readOk) ==
    /\ pc[q] = "errText"
    /\ r' = [r EXCEPT ![q].done = readOk, ![q].errored = ~readOk]
    /\ Respond(q, 502, [ErrObj("eleven_failed") EXCEPT
                            !.status = r[q].status,
                            !.body = Slice(BodyText(r[q], readOk), ERR_BODY_MAX)])
    /\ UNCHANGED <<cfg, req, calls, nread>>

\* Mutant of SampleSettle: the sample is cut at the cap of the other branch.
SampleSettleWrongCap(q, readOk) ==
    /\ pc[q] = "sample"
    /\ r' = [r EXCEPT ![q].done = readOk, ![q].errored = ~readOk]
    /\ Respond(q, 502, [ErrObj("bad_content_type") EXCEPT
                            !.contentType = Ct(r[q]),
                            !.body = Slice(BodyText(r[q], readOk), ERR_BODY_MAX)])
    /\ UNCHANGED <<cfg, req, calls, nread>>

\* The content-type branch after r.text() settled.
SampleSettle(q, readOk) ==
    /\ pc[q] = "sample"
    /\ r' = [r EXCEPT ![q].done = readOk, ![q].errored = ~readOk]
    /\ Respond(q, 502, [ErrObj("bad_content_type") EXCEPT
                            !.contentType = Ct(r[q]),
                            !.body = Slice(BodyText(r[q], readOk), SAMPLE_MAX)])
    /\ UNCHANGED <<cfg, req, calls, nread>>

\* if (!r.body): r.arrayBuffer() resolved, res.end(buf).
ArrayBufferResolve(q) ==
    /\ pc[q] = "arrayBuffer"
    /\ r' = [r EXCEPT ![q].done = TRUE]
    /\ res' = [res EXCEPT ![q] = ResEnd(@, BufferFrom(Flatten(r[q].payload)))]
    /\ pc' = [pc EXCEPT ![q] = "done"]
    /\ UNCHANGED <<cfg, req, calls, nread, caught>>

\* What reader.read() resolves with after n chunks were handed over.
ReadResult(rsp, n) ==
    IF n < Len(rsp.payload) THEN [done |-> FALSE, value |-> rsp.payload[n + 1]]
    ELSE [done |-> TRUE, value |-> <<>>]

\* Mutant of LoopTurn: the first chunk read is taken for the whole body.
LoopTurnOnce(q, result) ==
    /\ res' = [res EXCEPT ![q] = ResEnd(@, BufferFrom(result.value))]
    /\ pc' = [pc EXCEPT ![q] = "done"]

\* Mutant of LoopTurn: the response object is held in a variable shared by
\* the requests, every loop writes to the response of the first request.
LoopTurnShared(q, result) ==
    IF result.done
    THEN /\ res' = [res EXCEPT ![1] = ResEnd(@, <<>>)]
         /\ pc' = [pc EXCEPT ![q] = "done"]
    ELSE /\ res' = [res EXCEPT ![1] = ResWrite(@, BufferFrom(result.value))]
         /\ pc' = [pc EXCEPT ![q] = "read"]

\* One turn of the loop: if (done) break (then res.end()), else res.write.
LoopTurn(q, result) ==
    IF result.done
    THEN /\ res' = [res EXCEPT ![q] = ResEnd(@, <<>>)]
         /\ pc' = [pc EXCEPT ![q] = "done"]
    ELSE /\ res' = [res EXCEPT ![q] = ResWrite(@, BufferFrom(result.value))]
         /\ pc' = [pc EXCEPT ![q] = "read"]

\* reader.read() resolves.
ReadResolve(q) ==
    /\ pc[q] = "read"
    /\ LET result == ReadResult(r[q], nread[q])
       IN  /\ LoopTurn(q, result)
           /\ r' = [r EXCEPT ![q].done = result.done]
           /\ nread' = [nread EXCEPT ![q] = IF result.done THEN @ ELSE @ + 1]
    /\ UNCHANGED <<cfg, req, calls, caught>>

\* reader.read() rejects (the upstream connection dropped): the catch block.
ReadReject(q) ==
    /\ pc[q] = "read"
    /\ r' = [r EXCEPT ![q].errored = TRUE]
    /\ CatchBlock(q, res[q], "terminated")
    /\ UNCHANGED <<cfg, req, calls, nread>>

\* The caller's socket takes what is buffered ('drain'; nothing listens).
SocketFlush(q) ==
    /\ res[q].writableLength > 0
    /\ ~res[q].closed
    /\ res' = [res EXCEPT ![q].writableLength = 0]
    /\ UNCHANGED <<cfg, pc, req, calls, r, nread, caught>>

\* The caller disconnects while the body is streamed ('close'; nothing
\* listens, the reader is left alone).
CallerClose(q) ==
    /\ pc[q] = "read"
    /\ ~res[q].closed
    /\ res' = [res EXCEPT ![q].closed = TRUE, ![q].writableLength = 0]
    /\ UNCHANGED <<cfg, pc, req, calls, r, nread, caught>>

\* ------------------------------------------------------- the specification

Init ==
    /\ \E s \in EnvSecrets : PROXY_SECRET = Trim(OrEmpty(s))
    /\ \E k \in EnvKeys : ELEVEN_API_KEY = Trim(OrEmpty(k))
    /\ pc = [q \in Reqs |-> "idle"]
    /\ req = [q \in Reqs |-> NoReq]
    /\ calls = [q \in Reqs |-> 0]
    /\ r = [q \in Reqs |-> NoResponse]
    /\ nread = [q \in Reqs |-> 0]
    /\ res = [q \in Reqs |-> NewRes]
    /\ caught = [q \in Reqs |-> FALSE]

\* The steps of request q.
Step(q) ==
    \/ \E hdr \in Headers, text \in Texts, voiceId \in VoiceIds :
          Start(q, hdr, text, voiceId)
    \/ FetchReject(q)
    \/ \E rsp \in Responses : FetchResolve(q, rsp)
    \/ \E readOk \in BOOLEAN : ErrTextSettle(q, readOk)
    \/ \E readOk \in BOOLEAN : SampleSettle(q, readOk)
    \/ ArrayBufferResolve(q)
    \/ ReadResolve(q)
    \/ ReadReject(q)
    \/ SocketFlush(q)
    \/ CallerClose(q)

\* One request, with every input.
Next == Step(1)

Spec == Init /\ [][Next]_vars

\* Concurrent requests: fewer inputs for each, every interleaving of their
\* steps.  Two different audio bodies, null-body answers of the audio type
\* and of another type, and one failure.
ConcVoiceIds == {NULL, S_v1}
ConcPayloads == {<<<<104>>>>, <<<<195, 169>>, <<104>>>>}
ConcResponses ==
    {rsp \in Responses :
        /\ rsp.location = NULL
        /\ rsp.bodyNull \/ rsp.payload \in ConcPayloads
        /\ <<rsp.status, rsp.contentType>> \in
              {<<200, S_audio_mpeg>>, <<204, S_audio_mpeg>>,
               <<204, S_text_html>>, <<500, S_audio_mpeg>>}}

\* The steps of request q among concurrent requests.
ConcStep(q) ==
    \/ \E voiceId \in ConcVoiceIds : Start(q, S_s3, S_sp_hi_sp, voiceId)
    \/ FetchReject(q)
    \/ \E rsp \in ConcResponses : FetchResolve(q, rsp)
    \/ \E readOk \in BOOLEAN : ErrTextSettle(q, readOk)
    \/ \E readOk \in BOOLEAN : SampleSettle(q, readOk)
    \/ ArrayBufferResolve(q)
    \/ ReadResolve(q)
    \/ ReadReject(q)
    \/ SocketFlush(q)
    \/ CallerClose(q)

\* The event loop runs one step of one of the requests at a time.
ConcNext == \E q \in Reqs : ConcStep(q)

ConcSpec == Init /\ [][ConcNext]_vars

\* ------------------------------------------------------------------ claims

\* The request passed the guard: no secret configured, or the trimmed header
\* is the secret.
Admitted(q) ==
    \/ PROXY_SECRET = <<>>
    \/ req[q].secret # NULL /\ Trim(req[q].secret) = PROXY_SECRET

\* The upstream answered with a 2xx status and an audio content type.
IsAudio2xx(rsp) ==
    /\ rsp.status \in 200..299
    /\ rsp.contentType # NULL
    /\ Includes(ToLowerCase(rsp.contentType), S_audio)

\* The upstream body as text.
UpText(rsp) == Utf8Decode(Flatten(rsp.payload))

\* The one JSON body of a response that carries exactly one.
TheJson(q) == res[q].json[1]

\* The caller got exactly one JSON error of this status and kind.
GotError(q, code, kind) ==
    /\ pc[q] = "done"
    /\ res[q].ended
    /\ res[q].sentStatus = code
    /\ res[q].body = <<>>
    /\ Len(res[q].json) = 1
    /\ TheJson(q).ok = FALSE
    /\ TheJson(q).error = kind

\* C1: with a secret configured, a request whose x-proxy-secret header is
\* missing or, trimmed, differs from the secret is answered 401 bad_secret,
\* and no upstream call is made for it, in any state.
C1_SecretEnforced ==
    \A q \in Reqs :
        (/\ pc[q] # "idle"
         /\ PROXY_SECRET # <<>>
         /\ (req[q].secret = NULL \/ Trim(req[q].secret) # PROXY_SECRET))
        => /\ GotError(q, 401, "bad_secret")
           /\ calls[q] = 0
           /\ r[q] = NoResponse

\* C1 witness: a header that differs from the secret only by case was rejected.
C1_Witness ==
    \E q \in Reqs :
        /\ PROXY_SECRET = S_s3
        /\ req[q].secret = S_S3
        /\ res[q].sentStatus = 401

\* C2: status 200 is set, sent, or a body byte written to the caller, only for
\* an upstream response whose status is 2xx and whose Content-Type contains
\* "audio/" whatever its case: the gating is decided before any byte is released.
C2_CommitOnlyAfterGating ==
    \A q \in Reqs :
        (\/ pc[q] \in {"read", "arrayBuffer"}
         \/ res[q].sentStatus = 200
         \/ res[q].body # <<>>)
        => IsAudio2xx(r[q])

\* C2 witness: audio bytes were sent with status 200 for an upper-case audio type.
C2_Witness ==
    \E q \in Reqs :
        /\ res[q].sentStatus = 200
        /\ res[q].body # <<>>
        /\ r[q].contentType = S_AUDIO_Mpeg

\* C3: for a 2xx audio response, unless the read failed before anything was
\* sent, the bytes given to the caller are a prefix of the chunks received so
\* far and no JSON is mixed in; once the upstream reports completion the body
\* is the concatenation of all chunks in order, sent with status 200 and
\* Content-Type audio/mpeg.
C3_StreamingFidelity ==
    \A q \in Reqs :
        (IsAudio2xx(r[q]) /\ (~caught[q] \/ res[q].sentStatus = 200))
        => /\ res[q].json = <<>>
           /\ IsPrefix(res[q].body, Flatten(SubSeq(r[q].payload, 1, nread[q])))
           /\ r[q].done =>
                /\ res[q].body = Flatten(r[q].payload)
                /\ res[q].sentStatus = 200
                /\ res[q].sentType = "audio/mpeg"
                /\ res[q].ended

\* C3 witness: a body of two different chunks was relayed to its end.
C3_Witness ==
    \E q \in Reqs :
        /\ r[q].done
        /\ r[q].payload = <<<<195, 169>>, <<104>>>>
        /\ res[q].body = <<195, 169, 104>>
        /\ res[q].ended

\* C4: an upstream status in [300,400) is answered 502 eleven_redirect with
\* the upstream status and the Location value (null when absent); the body of
\* the redirect is never read and none of it reaches the caller.
C4_RedirectBlocked ==
    \A q \in Reqs :
        (r[q].status >= 300 /\ r[q].status < 400)
        => /\ GotError(q, 502, "eleven_redirect")
           /\ TheJson(q).status = r[q].status
           /\ TheJson(q).location = r[q].location
           /\ TheJson(q).body = ABSENT
           /\ ~r[q].bodyUsed
           /\ nread[q] = 0

\* C4 witness: a 300 without Location, carrying a body, was blocked.
C4_Witness ==
    \E q \in Reqs :
        /\ r[q].status = 300
        /\ r[q].location = NULL
        /\ r[q].payload # <<>>
        /\ res[q].sentStatus = 502

\* C5: a 2xx upstream response whose Content-Type is absent or lacks "audio/"
\* never gets status 200 or raw bytes; once answered, the answer is 502
\* bad_content_type with the content type and a prefix of the upstream body
\* of at most 250 characters.
C5_ContentTypeGated ==
    \A q \in Reqs :
        (r[q].status \in 200..299 /\ ~IsAudio2xx(r[q]))
        => /\ pc[q] \in {"sample", "done"}
           /\ res[q].sentStatus # 200
           /\ res[q].body = <<>>
           /\ pc[q] = "done" =>
                /\ GotError(q, 502, "bad_content_type")
                /\ ToLowerCase(TheJson(q).contentType)
                      = ToLowerCase(OrEmpty(r[q].contentType))
                /\ Len(TheJson(q).body) <= 250
                /\ IsPrefix(TheJson(q).body, UpText(r[q]))

\* C5 witness: a 200 text/html body longer than the cap was answered with a
\* sample of exactly 250 characters.
C5_Witness ==
    \E q \in Reqs :
        /\ r[q].status = 200
        /\ r[q].contentType = S_text_html
        /\ Len(UpText(r[q])) > 250
        /\ pc[q] = "done"
        /\ Len(TheJson(q).body) = 250

\* The upstream status is neither 2xx nor 3xx.
IsFailure(rsp) == rsp # NoResponse /\ rsp.status \notin 200..399

\* C6 as stated: an upstream status outside [200,300) and [300,400) is
\* answered 502 eleven_failed with the upstream status and a body field that
\* is exactly the first min(400, length) characters of the upstream body.
C6_AsStated ==
    \A q \in Reqs :
        (IsFailure(r[q]) /\ pc[q] = "done")
        => /\ GotError(q, 502, "eleven_failed")
           /\ TheJson(q).status = r[q].status
           /\ TheJson(q).body = SubSeq(UpText(r[q]), 1, Min(400, Len(UpText(r[q]))))

\* C6 amended: as C6, the body field being the first min(400, length)
\* characters of the upstream body when the body was read, and the empty
\* string when reading it failed; it never exceeds 400 characters.
C6_FailurePassthrough ==
    \A q \in Reqs :
        IsFailure(r[q])
        => /\ pc[q] \in {"errText", "done"}
           /\ pc[q] = "done" =>
                /\ GotError(q, 502, "eleven_failed")
                /\ TheJson(q).status = r[q].status
                /\ Len(TheJson(q).body) <= 400
                /\ TheJson(q).body =
                      IF r[q].errored THEN <<>>
                      ELSE SubSeq(UpText(r[q]), 1, Min(400, Len(UpText(r[q]))))

\* C6 witness: a 500 with a body of 401 characters, read in full, was
\* answered with its first 400.
C6_Witness ==
    \E q \in Reqs :
        /\ r[q].status = 500
        /\ ~r[q].errored
        /\ Len(UpText(r[q])) = 401
        /\ pc[q] = "done"
        /\ Len(TheJson(q).body) = 400

\* text / voiceId is missing or empty once trimmed.
Blank(x) == x = NULL \/ Trim(x) = <<>>

\* C7 as stated: every admitted request with a blank text is answered 400
\* empty_text, otherwise with a blank voiceId 400 no_voiceId, before any
\* upstream call.
C7_AsStated ==
    \A q \in Reqs :
        (pc[q] # "idle" /\ Admitted(q))
        => /\ Blank(req[q].text)
                => GotError(q, 400, "empty_text") /\ calls[q] = 0
           /\ (~Blank(req[q].text) /\ Blank(req[q].voiceId))
                => GotError(q, 400, "no_voiceId") /\ calls[q] = 0

\* C7 amended: the same for every admitted request when the upstream
\* credential is configured (without it the answer is 500 no_eleven_key).
C7_InputValidation ==
    \A q \in Reqs :
        (pc[q] # "idle" /\ Admitted(q) /\ ELEVEN_API_KEY # <<>>)
        => /\ Blank(req[q].text)
                => /\ GotError(q, 400, "empty_text")
                   /\ calls[q] = 0
                   /\ r[q] = NoResponse
           /\ (~Blank(req[q].text) /\ Blank(req[q].voiceId))
                => /\ GotError(q, 400, "no_voiceId")
                   /\ calls[q] = 0
                   /\ r[q] = NoResponse

\* C7 witness: a request with a text and a white-space voiceId was answered 400.
C7_Witness ==
    \E q \in Reqs :
        /\ ELEVEN_API_KEY # <<>>
        /\ req[q].text = S_sp_hi_sp
        /\ req[q].voiceId = S_blank
        /\ res[q].sentStatus = 400
        /\ TheJson(q).error = "no_voiceId"

\* C8: when the upstream body read fails after status 200 went out, the
\* handler does not finish with the caller-facing response left open.
C8_TerminatedAfterCommit ==
    \A q \in Reqs :
        (pc[q] = "done" /\ res[q].sentStatus = 200 /\ r[q].errored)
        => res[q].ended

\* C9: once the headers went out with status 200, no step changes the status
\* or content type the caller saw or sends a JSON body, and a failure writes
\* no further byte and leaves the handler completed, not rejected.
C9_NoDoubleResponse ==
    [][\A q \in Reqs :
          (res[q].headersSent /\ res[q].sentStatus = 200)
          => /\ res'[q].sentStatus = 200
             /\ res'[q].sentType = res[q].sentType
             /\ res'[q].json = <<>>
             /\ (caught'[q] /\ ~caught[q])
                  => /\ res'[q].body = res[q].body
                     /\ pc'[q] = "done"]_vars

\* C9 witness: the catch block ran after a chunk was sent with status 200.
C9_Witness ==
    \E q \in Reqs :
        /\ caught[q]
        /\ res[q].sentStatus = 200
        /\ res[q].body # <<>>
        /\ res[q].statusCode = 500
        /\ pc[q] = "done"

\* C10: a response sent with status 200 is ended only after the upstream
\* reported completion, with every chunk handed over already written.
C10_EndAfterUpstreamDone ==
    \A q \in Reqs :
        (res[q].ended /\ res[q].sentStatus = 200)
        => /\ r[q].done
           /\ nread[q] = Len(r[q].payload)
           /\ res[q].body = Flatten(r[q].payload)

\* C10 witness: a streamed body of two chunks was ended.
C10_Witness ==
    \E q \in Reqs :
        /\ res[q].ended
        /\ res[q].sentStatus = 200
        /\ ~r[q].bodyNull
        /\ nread[q] = 2


\* C14: a request is admitted exactly when no secret is configured (whatever
\* the header) or the trimmed x-proxy-secret header equals the secret; an
\* admitted request reaches the next check with its response untouched, a
\* rejected one gets the 401 and nothing else happens for it.
C14_AdmissionDecision ==
    \A q \in Reqs :
        pc[q] # "idle"
        => /\ Admitted(q) <=> ~GotError(q, 401, "bad_secret")
           /\ Admitted(q) => res[q].sentStatus # 401
           /\ (Admitted(q) /\ pc[q] = "fetch") => res[q] = NewRes
           /\ ~Admitted(q) => (calls[q] = 0 /\ r[q] = NoResponse /\ ~caught[q])

\* C14 witness: with no secret configured a request carrying a header was
\* admitted and went on to the upstream call.
C14_Witness ==
    \E q \in Reqs :
        /\ PROXY_SECRET = <<>>
        /\ req[q].secret = S_s3
        /\ pc[q] = "fetch"

\* C18: an admitted request, when the upstream credential is not configured,
\* is answered 500 no_eleven_key without any upstream call, whatever its body.
C18_MissingCredential ==
    \A q \in Reqs :
        (pc[q] # "idle" /\ Admitted(q) /\ ELEVEN_API_KEY = <<>>)
        => /\ GotError(q, 500, "no_eleven_key")
           /\ calls[q] = 0
           /\ r[q] = NoResponse

\* C18 witness: a request with a blank text and no voiceId got no_eleven_key.
C18_Witness ==
    \E q \in Reqs :
        /\ ELEVEN_API_KEY = <<>>
        /\ Admitted(q)
        /\ req[q].text = S_blank
        /\ req[q].voiceId = NULL
        /\ res[q].sentStatus = 500

\* The first condition, in the order bad_secret, no_eleven_key, empty_text,
\* no_voiceId, that holds of request q; "" when none does.
FirstRejection(q) ==
    IF ~Admitted(q) THEN "bad_secret"
    ELSE IF ELEVEN_API_KEY = <<>> THEN "no_eleven_key"
    ELSE IF Blank(req[q].text) THEN "empty_text"
    ELSE IF Blank(req[q].voiceId) THEN "no_voiceId"
    ELSE ""

\* C19: the response to a request carries the first of bad_secret,
\* no_eleven_key, empty_text, no_voiceId whose condition holds, and a request
\* for which none holds goes on to the upstream call.
C19_CheckPrecedence ==
    \A q \in Reqs :
        pc[q] # "idle"
        => IF FirstRejection(q) = ""
           THEN calls[q] = 1
                /\ (res[q].json # <<>> =>
                       TheJson(q).error \notin
                          {"bad_secret", "no_eleven_key", "empty_text", "no_voiceId"})
           ELSE /\ Len(res[q].json) = 1
                /\ TheJson(q).error = FirstRejection(q)
                /\ calls[q] = 0

\* C19 witness: a request for which all four conditions hold got bad_secret.
C19_Witness ==
    \E q \in Reqs :
        /\ pc[q] = "done"
        /\ ~Admitted(q)
        /\ ELEVEN_API_KEY = <<>>
        /\ Blank(req[q].text)
        /\ Blank(req[q].voiceId)
        /\ TheJson(q).error = "bad_secret"


\* C16: the upstream response is classified by the first failing check in the
\* order redirect, status, content type: a 3xx gives eleven_redirect and any
\* other non-2xx eleven_failed, whatever the Content-Type; a 2xx without
\* "audio/" gives bad_content_type; only a 2xx audio response is streamed.
\* Each response gets exactly one of the four outcomes.
C16_GatingOrder ==
    \A q \in Reqs :
        r[q] # NoResponse
        => /\ Len(res[q].json) <= 1
           /\ IF r[q].status \in 300..399
              THEN GotError(q, 502, "eleven_redirect")
              ELSE IF r[q].status \notin 200..299
              THEN pc[q] = "errText" \/ GotError(q, 502, "eleven_failed")
              ELSE IF ~IsAudio2xx(r[q])
              THEN pc[q] = "sample" \/ GotError(q, 502, "bad_content_type")
              ELSE \/ pc[q] \in {"read", "arrayBuffer"}
                   \/ pc[q] = "done" /\ res[q].json = <<>>
                   \/ GotError(q, 500, "proxy_error")

\* C16 witness: a 500 with an HTML content type was classified by its status.
C16_Witness ==
    \E q \in Reqs :
        /\ r[q].status = 500
        /\ r[q].contentType = S_text_html
        /\ pc[q] = "done"
        /\ TheJson(q).error = "eleven_failed"

\* The error kinds with their statuses.
ErrorKinds ==
    {<<"bad_secret", 401>>, <<"empty_text", 400>>, <<"no_voiceId", 400>>,
     <<"no_eleven_key", 500>>, <<"eleven_redirect", 502>>, <<"eleven_failed", 502>>,
     <<"bad_content_type", 502>>, <<"proxy_error", 500>>}

\* C13: a handler that finished without a 200 having gone out has sent
\* exactly one JSON error {ok: false, error: kind} whose kind and status are
\* one of the eight listed; a rejected fetch gives 500 proxy_error; the
\* handler never rejects.
C13_ErrorsAreJson ==
    \A q \in Reqs :
        /\ pc[q] # "rejected"
        /\ Len(res[q].json) <= 1
        /\ (pc[q] = "done" /\ res[q].sentStatus # 200)
             => /\ res[q].ended
                /\ res[q].body = <<>>
                /\ Len(res[q].json) = 1
                /\ TheJson(q).ok = FALSE
                /\ <<TheJson(q).error, res[q].sentStatus>> \in ErrorKinds
        /\ (calls[q] = 1 /\ pc[q] # "fetch" /\ r[q] = NoResponse)
             => GotError(q, 500, "proxy_error")

\* C13 witness: fetch rejected and the caller got 500 proxy_error.
C13_Witness ==
    \E q \in Reqs :
        /\ calls[q] = 1
        /\ r[q] = NoResponse
        /\ caught[q]
        /\ res[q].sentStatus = 500
        /\ TheJson(q).error = "proxy_error"

\* The Content-Type sent has the media type audio/mpeg.
AudioLabelled(t) == t \in {"audio/mpeg", "audio/mpeg; charset=utf-8"}

\* C20: a response sent with Content-Type audio/mpeg has status 200 and a
\* body made of upstream body bytes only; an error response is not labelled
\* audio/mpeg.
C20_AudioLabelOnlyOnAudio ==
    \A q \in Reqs :
        (res[q].headersSent /\ AudioLabelled(res[q].sentType))
        => /\ res[q].sentStatus = 200
           /\ res[q].json = <<>>
           /\ IsPrefix(res[q].body, Flatten(r[q].payload))


\* C17: a request issues at most one upstream call over its whole life: a
\* 3xx answer is not followed, and no failure leads to a second call.
C17_SingleUpstreamCall ==
    \A q \in Reqs :
        /\ calls[q] <= 1
        /\ r[q] # NoResponse => calls[q] = 1
        /\ caught[q] => calls[q] = 1

\* C17 witness: a 302 with a Location was answered after a single call.
C17_Witness ==
    \E q \in Reqs :
        /\ r[q].status = 302
        /\ r[q].location = S_loc
        /\ pc[q] = "done"
        /\ calls[q] = 1


\* C11: no read of the upstream body is outstanding while the caller-facing
\* stream signals that its write buffer is full, so what is read and not yet
\* taken by the caller's connection stays below the high-water mark plus one
\* chunk.
C11_Backpressure ==
    \A q \in Reqs : pc[q] = "read" => ~NeedDrain(res[q])

\* C12: once the caller has disconnected no further chunk is read from the
\* upstream for that request.
C12_CancelOnDisconnect ==
    [][\A q \in Reqs :
          res[q].closed => (nread'[q] = nread[q] /\ r'[q].done = r[q].done)]_vars

\* Everything the handler of request q holds or has produced.
Own(q) == <<pc[q], req[q], calls[q], r[q], nread[q], res[q], caught[q]>>

\* What the caller of request q has been given.
Answer(q) == <<res[q].sentStatus, res[q].sentType, res[q].json, res[q].body,
               res[q].ended>>

\* Requests with the same input, the same upstream response and the same
\* progress have been given the same answer.
SameAnswers ==
    \A p, q \in Reqs :
        (/\ req[p] = req[q] /\ r[p] = r[q] /\ nread[p] = nread[q]
         /\ pc[p] = pc[q] /\ caught[p] = caught[q])
            => Answer(p) = Answer(q)

\* The raw bytes given to a caller come from the request's own upstream body.
OwnBytes ==
    \A q \in Reqs :
        /\ IsPrefix(res[q].body, Flatten(r[q].payload))
        /\ r[q] = NoResponse => res[q].body = <<>>

\* A step leaves the configuration alone and touches one request at most.
OneRequestStep ==
    /\ cfg' = cfg
    /\ \E q \in Reqs : \A p \in Reqs \ {q} : Own(p)' = Own(p)

\* C15: under every interleaving of concurrent requests, each request's
\* answer is determined by its own input, the configuration and its own
\* upstream response; the bytes a caller gets are bytes of its own upstream
\* body; no step touches the configuration or a second request.
C15_RequestIndependence ==
    [][OneRequestStep /\ SameAnswers' /\ OwnBytes']_vars

\* Two requests stream different upstream bodies at the same time and each
\* caller has been given bytes.
C15_Witness ==
    /\ pc[1] = "read" /\ pc[2] = "read"
    /\ nread[1] >= 1 /\ nread[2] >= 1
    /\ r[1].payload # r[2].payload
    /\ res[1].body # res[2].body
    /\ res[1].body # <<>> /\ res[2].body # <<>>

=============================================================================
